---------------------------- MODULE Spec2Model ----------------------------
(***************************************************************************)
(* A model of hkterrain's TerrainLayer (terrain-layer.js): the single-mesh *)
(* reload path of updateState, loadTerrain, the per-tile loader            *)
(* getTiledTerrainData and the z-range aggregation in onViewportLoad.      *)
(*                                                                         *)
(* JavaScript's run-to-completion scheduling is modelled explicitly: a     *)
(* handler runs up to its first await in one step, the continuation of an  *)
(* await is a microtask (mq), and a new task (a framework call, a promise  *)
(* settled by the outside world, a fetch completing) starts only when the  *)
(* microtask queue is empty.                                               *)
(***************************************************************************)
EXTENDS Integers, Sequences, FiniteSets, TLC

VARIABLES
    props,        \* this.props of the layer
    isTiled,      \* state.isTiled: "undefined", "false" or "true"
    terrain,      \* state.terrain: 0 (undefined) or the id of a load (a promise)
    zRange,       \* state.zRange: <<>> (undefined) or <<minZ, maxZ>>
    calls,        \* the updateState calls made so far, in order of initiation
    mq,           \* microtask queue: ids of calls whose await has completed
    promResolved, \* the bounds promises the outside world has resolved
    loads,        \* the loadTerrain calls made so far (each one a promise)
    tiles,        \* the getTiledTerrainData calls made so far
    ev,           \* the last handler that ran, with its arguments and outcome
    app           \* the application: its redux store, what App read from it and
                  \* the TerrainLayers it created

vars == <<props, isTiled, terrain, zRange, calls, mq, promResolved, loads, tiles, ev, app>>

----------------------------------------------------------------------------
(* Bounds of the model *)

MaxUpdates == 2
MaxTiles == 2
MaxReported == 2
MaxLayers == 3

(* Heights a mesh's bounding box may have *)
ZValues == {0, 5, 10, 20}

----------------------------------------------------------------------------
(* Values *)

NoMesh == <<>>
NoContent == <<>>
NoRange == <<>>

ElevationSources == {"null", "urlA", "urlB", "tmplS", "tmplArr"}
ElevationDecoders == {"default", "terrarium"}
TextureSources == {"null", "texT"}
BoundsValues == {"null", "boxA", "promA", "promB"}
BoundsPromises == {"promA", "promB"}
MeshMaxErrors == {4, 10}
Tesselators == {"auto", "delatin"}

(* typeof v == 'string' for an elevationData value: "tmplS" is a string with *)
(* {x} and {y} in it, "tmplArr" is an array of such strings                 *)
IsString(v) == v \in {"urlA", "urlB", "tmplS"}

(* !v for an elevationData or url value *)
IsFalsy(v) == v = "null"

(* The bounds handed on as they are, a promise included *)
ResolvedBounds_Raw(b) == b

(* The value a bounds prop resolves to: a promise yields the box it carries *)
ResolvedBounds(b) == IF b = "promA" THEN "boxA" ELSE IF b = "promB" THEN "boxB" ELSE b

PropsSet ==
    [elevationData : ElevationSources, texture : TextureSources,
     meshMaxError : MeshMaxErrors, bounds : BoundsValues, tesselator : Tesselators,
     elevationDecoder : ElevationDecoders]

(* oldProps of the first updateState: every prop undefined *)
EmptyProps ==
    [elevationData |-> "undefined", texture |-> "undefined", meshMaxError |-> 0,
     bounds |-> "undefined", tesselator |-> "undefined", elevationDecoder |-> "undefined"]

(* A mesh is represented by its header.boundingBox, [[minX,minY,minZ],[maxX,maxY,maxZ]] *)
Mesh(lo, hi) == << <<0, 0, lo>>, <<1, 1, hi>> >>
Meshes == {Mesh(r[1], r[2]) : r \in {q \in ZValues \X ZValues : q[1] <= q[2]}}

Min(S) == CHOOSE x \in S : \A y \in S : x <= y
Max(S) == CHOOSE x \in S : \A y \in S : x >= y

----------------------------------------------------------------------------
(* loadTerrain *)

(* loadTerrain without its early return: a fetch is issued for any source *)
loadTerrain_NoGuard(p, by) ==
    [elevationData |-> p.elevationData, bounds |-> p.bounds,
     meshMaxError |-> p.meshMaxError, tesselator |-> p.tesselator,
     fetch |-> "pending", fetches |-> 1, mesh |-> NoMesh, by |-> by]

(* A loadTerrain call, lines 114-136, as the record of its options and of  *)
(* the load() it issued.  With no elevationData it returns before line 125 *)
(* and issues none; otherwise it issues one and awaits it.                 *)
loadTerrain(p, by) ==
    [elevationData |-> p.elevationData, bounds |-> p.bounds,
     meshMaxError |-> p.meshMaxError, tesselator |-> p.tesselator,
     fetch |-> IF IsFalsy(p.elevationData) THEN "notIssued" ELSE "pending",
     fetches |-> IF IsFalsy(p.elevationData) THEN 0 ELSE 1,
     mesh |-> NoMesh, by |-> by]

(* loadTerrain catching a failed load() and returning null *)
awaitLoad_Swallow(l) ==
    IF l.fetch = "notIssued" THEN [status |-> "fulfilled", value |-> NoMesh]
    ELSE IF l.fetch = "fulfilled" THEN [status |-> "fulfilled", value |-> l.mesh]
    ELSE IF l.fetch = "rejected" THEN [status |-> "fulfilled", value |-> NoMesh]
    ELSE [status |-> "pending", value |-> NoMesh]

(* The promise loadTerrain returned, lines 122-124 and 136-150: resolved to *)
(* null when nothing was fetched, else settled as the awaited load() is.    *)
awaitLoad(l) ==
    IF l.fetch = "notIssued" THEN [status |-> "fulfilled", value |-> NoMesh]
    ELSE IF l.fetch = "fulfilled" THEN [status |-> "fulfilled", value |-> l.mesh]
    ELSE IF l.fetch = "rejected" THEN [status |-> "rejected", value |-> NoMesh]
    ELSE [status |-> "pending", value |-> NoMesh]

----------------------------------------------------------------------------
(* The redux store, reducer.js *)

ActionTypes == {"SET_MESH_MAX_ERROR", "SET_TESSELECTOR", "OTHER"}
Payloads == {"1", "martini"}
StoreActions == [type : ActionTypes, payload : Payloads]

(* meshMaxErrorReducer, lines 3-11; 0.1 is the default of an undefined state *)
meshMaxErrorReducer(state, action) ==
    IF action.type = "SET_MESH_MAX_ERROR" THEN action.payload
    ELSE IF state = "undefined" THEN "0.1" ELSE state

(* tesselectorReducer, lines 13-21 *)
tesselectorReducer(state, action) ==
    IF action.type = "SET_TESSELECTOR" THEN action.payload
    ELSE IF state = "undefined" THEN "delatin" ELSE state

(* A root reducer that hands both slices to the reducer of the tolerance *)
rootReducer_OneReducer(state, action) ==
    [meshMaxError |-> meshMaxErrorReducer(state.meshMaxError, action),
     tesselector |-> meshMaxErrorReducer(state.tesselector, action)]

(* combineReducers, lines 23-26: each reducer gets the slice under its key *)
rootReducer(state, action) ==
    [meshMaxError |-> meshMaxErrorReducer(state.meshMaxError, action),
     tesselector |-> tesselectorReducer(state.tesselector, action)]

(* The store as createStore leaves it: the reducers' defaults *)
InitialStore ==
    rootReducer([meshMaxError |-> "undefined", tesselector |-> "undefined"],
                [type |-> "@@INIT", payload |-> "undefined"])

(* state.key in a selector: undefined when the state has no such key *)
Select(state, key) == IF key \in DOMAIN state THEN state[key] ELSE "undefined"

(* What App has read from the store when it has not rendered yet *)
Unread == [meshMaxError |-> "unread", tesselator |-> "unread"]

----------------------------------------------------------------------------
(* The catalog and the view of App, part_001 *)

(* A row of bbox.csv; a name is the sequence of the pieces of its text *)
Row(name, minLon, minLat, maxLon, maxLat) ==
    [name |-> name, minLon |-> minLon, minLat |-> minLat, maxLon |-> maxLon,
     maxLat |-> maxLat]

(* The rows Papa.parse yields: two datasets and the empty row of the        *)
(* file's last line break                                                   *)
Catalog ==
    <<Row(<<"hk", ":", "1", ".tif">>, 2, 2, 4, 4),
      Row(<<"hk", ":", "2", ".tif">>, 5, 3, 7, 5),
      Row(<<>>, 0, 0, 0, 0)>>

(* The view bbox of useState, lines 43-45, and the zoom of line 46 *)
InitialView == <<0, 0, 10, 10>>
InitialZoom == 13

(* The view bboxes and zooms onViewStateChange may set *)
Views == {InitialView, <<0, 0, 5, 5>>, <<2, 2, 8, 8>>, <<20, 20, 30, 30>>}
Zooms == {0, InitialZoom}

(* The filter of lines 59-70 and 185-196: the named rows whose bbox lies    *)
(* strictly inside the view bbox                                            *)
Inside(b, viewBbox) ==
    /\ b.name # <<>>
    /\ b.minLon > viewBbox[1]
    /\ b.maxLon < viewBbox[3]
    /\ b.minLat > viewBbox[2]
    /\ b.maxLat < viewBbox[4]

InsideView(rows, viewBbox) == SelectSeq(rows, LAMBDA b : Inside(b, viewBbox))

(* xs.filter((x) => !ys.includes(x)) *)
Without(xs, ys) == SelectSeq(xs, LAMBDA x : \A i \in 1..Len(ys) : ys[i] # x)

(* String.replace(from, to): the first occurrence only *)
RECURSIVE replace(_, _, _)
replace(text, from, to) ==
    IF text = <<>> THEN <<>>
    ELSE IF Head(text) = from THEN to \o Tail(text)
    ELSE <<Head(text)>> \o replace(Tail(text), from, to)

(* ds.name.replace(':', '%3A').replace('.tif', ''), lines 89, 124, 202 *)
layerId(name) == replace(replace(name, ":", <<"%3A">>), ".tif", <<>>)

(* Array.slice(start, end): a copy of a part, the array itself untouched *)
slice(arr, start, end) == SubSeq(arr, start + 1, end)

(* Array.findIndex: the index from 0 of the first match, -1 without one *)
findIndex(layers, id) ==
    IF \E i \in 1..Len(layers) : layers[i].id = id
    THEN (CHOOSE i \in 1..Len(layers) :
             layers[i].id = id /\ \A j \in 1..(i - 1) : layers[j].id # id) - 1
    ELSE -1

----------------------------------------------------------------------------
Init ==
    /\ app = [store |-> InitialStore, rendered |-> FALSE, first |-> Unread,
              read |-> Unread, created |-> <<>>,
              viewBbox |-> InitialView, zoom |-> InitialZoom, bboxData |-> "undefined",
              imgList |-> <<>>, addList |-> <<>>, removeList |-> <<>>,
              terrainLayers |-> <<>>, effects |-> "none"]
    /\ props \in PropsSet
    /\ isTiled = "undefined"
    /\ terrain = 0
    /\ zRange = NoRange
    /\ calls = <<>>
    /\ mq = <<>>
    /\ promResolved = {}
    /\ loads = <<>>
    /\ tiles = <<>>
    /\ ev = [op |-> "construct"]

(* updateState({props, oldProps}), up to its first await.  The call either  *)
(* returns at once (no reload) or is suspended on the bounds: on a value or *)
(* an already resolved promise its continuation is queued as a microtask,   *)
(* on a pending promise it waits for the promise to be resolved.            *)
elevationDataChanged(p, old) == p.elevationData # old.elevationData

(* shouldReload with the comparison of line 98 *)
shouldReload_WithDecoder(p, old) ==
    \/ elevationDataChanged(p, old)
    \/ p.meshMaxError # old.meshMaxError
    \/ p.elevationDecoder # old.elevationDecoder
    \/ p.bounds # old.bounds
    \/ p.tesselator # old.tesselator

(* shouldReload, lines 95-100 *)
shouldReload(p, old) ==
    \/ elevationDataChanged(p, old)
    \/ p.meshMaxError # old.meshMaxError
    \/ p.bounds # old.bounds
    \/ p.tesselator # old.tesselator

(* The mode decision of lines 85-89: tiled for an array or a template *)
isTiledAfter_FromSource(p, old) ==
    IF elevationDataChanged(p, old)
    THEN IF p.elevationData \in {"tmplS", "tmplArr"} THEN "true" ELSE "false"
    ELSE isTiled

(* state.isTiled after the first statement of updateState *)
isTiledAfter(p, old) == IF elevationDataChanged(p, old) THEN "false" ELSE isTiled

(* The condition of the reload branch, line 102 *)
reloads(p, old) ==
    /\ isTiledAfter(p, old) # "true"
    /\ shouldReload(p, old)
    /\ IsString(p.elevationData)

BoundsPending(b) == b \in BoundsPromises /\ b \notin promResolved

updateState(p, old) ==
    LET id == Len(calls) + 1 IN
    /\ props' = p
    /\ isTiled' = isTiledAfter(p, old)
    /\ IF reloads(p, old)
       THEN IF BoundsPending(p.bounds)
            THEN /\ calls' = Append(calls, [props |-> p, pc |-> "awaitBounds", load |-> 0])
                 /\ mq' = mq
            ELSE /\ calls' = Append(calls, [props |-> p, pc |-> "queued", load |-> 0])
                 /\ mq' = Append(mq, id)
       ELSE /\ calls' = Append(calls, [props |-> p, pc |-> "returned", load |-> 0])
            /\ mq' = mq
    /\ ev' = [op |-> "updateState", call |-> id, reload |-> reloads(p, old),
              changed |-> shouldReload(p, old)]
    /\ UNCHANGED <<terrain, zRange, promResolved, loads, tiles, app>>

(* The framework's first call, made when the layer is initialized *)
InitializeLayer ==
    /\ calls = <<>>
    /\ mq = <<>>
    /\ updateState(props, EmptyProps)

(* A later call: the application hands the layer new props.  One prop      *)
(* differs from the previous props, or none does.                          *)
SetProps ==
    /\ calls # <<>>
    /\ Len(calls) < MaxUpdates
    /\ mq = <<>>
    /\ \E p \in PropsSet :
          /\ Cardinality({f \in DOMAIN p : p[f] # props[f]}) <= 1
          /\ updateState(p, props)

(* The outside world resolves a bounds promise: the calls waiting on it are *)
(* resumed in the order they subscribed.                                    *)
RECURSIVE Waiting(_, _)
Waiting(pr, i) ==
    IF i > Len(calls) THEN <<>>
    ELSE IF calls[i].pc = "awaitBounds" /\ calls[i].props.bounds = pr
         THEN <<i>> \o Waiting(pr, i + 1)
         ELSE Waiting(pr, i + 1)

ResolveBounds ==
    /\ mq = <<>>
    /\ \E pr \in BoundsPromises \ promResolved :
          /\ promResolved' = promResolved \cup {pr}
          /\ mq' = Waiting(pr, 1)
          /\ calls' = [i \in 1..Len(calls) |->
                          IF calls[i].pc = "awaitBounds" /\ calls[i].props.bounds = pr
                          THEN [calls[i] EXCEPT !.pc = "queued"] ELSE calls[i]]
          /\ ev' = [op |-> "resolveBounds", promise |-> pr]
    /\ UNCHANGED <<props, isTiled, terrain, zRange, loads, tiles, app>>

(* The rest of updateState, after the await: lines 106-110 *)
ResumeUpdateState ==
    /\ mq # <<>>
    /\ LET id == Head(mq)
           p == [calls[id].props EXCEPT !.bounds = ResolvedBounds(calls[id].props.bounds)]
           l == Len(loads) + 1
       IN /\ loads' = Append(loads, loadTerrain(p, "updateState"))
          /\ terrain' = l
          /\ calls' = [calls EXCEPT ![id].pc = "returned", ![id].load = l]
          /\ mq' = Tail(mq)
          /\ ev' = [op |-> "resumeUpdateState", call |-> id, load |-> l]
    /\ UNCHANGED <<props, isTiled, zRange, promResolved, tiles, app>>

(* The meshes the loader may yield for a load.  The layer never reads the   *)
(* mesh of a single-mesh load (it hands state.terrain to the sub layer as   *)
(* it is), so one mesh stands for all of them there; a tile's mesh is read  *)
(* by onViewportLoad, and every z-extent is possible.                       *)
LoaderMeshes(l) ==
    IF l.by = "updateState" THEN {Mesh(Min(ZValues), Max(ZValues))} ELSE Meshes

(* The load() a loadTerrain call awaits settles: the loader yields a mesh,  *)
(* or the fetch or the parse fails and the promise is rejected.             *)
LoadSettles ==
    /\ mq = <<>>
    /\ \E i \in 1..Len(loads) :
          /\ loads[i].fetch = "pending"
          /\ \/ \E m \in LoaderMeshes(loads[i]) :
                   loads' = [loads EXCEPT ![i].fetch = "fulfilled", ![i].mesh = m]
             \/ loads' = [loads EXCEPT ![i].fetch = "rejected"]
          /\ ev' = [op |-> "loadSettles", load |-> i]
    /\ UNCHANGED <<props, isTiled, terrain, zRange, calls, mq, promResolved, tiles, app>>

----------------------------------------------------------------------------
(* getTiledTerrainData *)

(* getURLFromTemplate(template, tile): no template, no url; otherwise the   *)
(* url of the tile (for an array of templates, the url made from one of     *)
(* them).                                                                   *)
getURLFromTemplate(template) ==
    IF template = "null" THEN "null"
    ELSE IF template \in {"tmplS", "tmplArr"} THEN "urlT" ELSE template

(* A tile as the tile layer hands it over: its zoom and its bounding box in *)
(* degrees.  The corners are such that the midpoints are whole degrees.     *)
Tile(z, west, south, east, north) ==
    [z |-> z, bbox |-> [west |-> west, south |-> south, east |-> east, north |-> north]]

FirstTile == Tile(12, 114, 22, 116, 24)

TileSet == {FirstTile, Tile(12, 116, 22, 118, 24), Tile(13, 114, 22, 116, 24),
            Tile(13, 114, 22, 115, 23)}

(* new WebMercatorViewport({longitude, latitude, zoom}): the viewport is    *)
(* what it was made of                                                      *)
WebMercatorViewport(longitude, latitude, zoom) ==
    [longitude |-> longitude, latitude |-> latitude, zoom |-> zoom]

(* viewport.projectFlat([lng, lat]): the library's projection, a function   *)
(* of the viewport and the point, kept as the pair of its two coordinates   *)
projectFlat(viewport, lngLat) == << <<"x", viewport, lngLat>>, <<"y", viewport, lngLat>> >>

(* The bounds of a tile computed from a viewport centred on no tile *)
tileBounds_Global(tile) ==
    LET viewport == WebMercatorViewport(0, 0, tile.z)
        bottomLeft == projectFlat(viewport, <<tile.bbox.west, tile.bbox.south>>)
        topRight == projectFlat(viewport, <<tile.bbox.east, tile.bbox.north>>)
    IN <<bottomLeft[1], bottomLeft[2], topRight[1], topRight[2]>>

(* The bounds of a tile, lines 158-166 *)
tileBounds(tile) ==
    LET viewport == WebMercatorViewport((tile.bbox.west + tile.bbox.east) \div 2,
                                        (tile.bbox.north + tile.bbox.south) \div 2,
                                        tile.z)
        bottomLeft == projectFlat(viewport, <<tile.bbox.west, tile.bbox.south>>)
        topRight == projectFlat(viewport, <<tile.bbox.east, tile.bbox.north>>)
    IN <<bottomLeft[1], bottomLeft[2], topRight[1], topRight[2]>>

(* The options getTiledTerrainData hands to loadTerrain, lines 168-174: the *)
(* tile's url and projected bounds, and the layer's meshMaxError.  No       *)
(* tesselator is passed.                                                    *)
TileLoadProps(tile) ==
    [elevationData |-> getURLFromTemplate(props.elevationData),
     bounds |-> tileBounds(tile),
     meshMaxError |-> props.meshMaxError,
     tesselator |-> "undefined"]

(* The texture fetch without its catch *)
catchNull_Rethrow(pr) == pr

(* .catch(() => null), line 178: a rejection becomes a null result *)
catchNull(pr) ==
    IF pr.status = "rejected" THEN [status |-> "fulfilled", value |-> "null"] ELSE pr

(* The surface of a tile, lines 176-179: the texture fetch of the tile, or  *)
(* none when there is no texture url.                                       *)
Surface(textureUrl) ==
    [fetch |-> IF IsFalsy(textureUrl) THEN "notIssued" ELSE "pending",
     fetches |-> IF IsFalsy(textureUrl) THEN 0 ELSE 1]

(* The surface promise: Promise.resolve(null) without a fetch, else the     *)
(* fetch with its failure caught.                                           *)
surfacePromise(sf) ==
    IF sf.fetch = "notIssued" THEN [status |-> "fulfilled", value |-> "null"]
    ELSE IF sf.fetch = "pending" THEN [status |-> "pending", value |-> "null"]
    ELSE IF sf.fetch = "fulfilled" THEN catchNull([status |-> "fulfilled", value |-> "img"])
    ELSE catchNull([status |-> "rejected", value |-> "null"])

(* getTiledTerrainData(tile), lines 153-182 *)
getTiledTerrainData(tile) ==
    /\ mq = <<>>
    /\ Len(tiles) < MaxTiles
    /\ LET l == Len(loads) + 1
           textureUrl == getURLFromTemplate(props.texture)
       IN /\ loads' = Append(loads, loadTerrain(TileLoadProps(tile), "getTiledTerrainData"))
          /\ tiles' = Append(tiles, [tile |-> tile, terrain |-> l, textureUrl |-> textureUrl,
                                     surface |-> Surface(textureUrl)])
          /\ ev' = [op |-> "getTiledTerrainData", tile |-> Len(tiles) + 1]
    /\ UNCHANGED <<props, isTiled, terrain, zRange, calls, mq, promResolved, app>>

(* The tile layer asks for the data of a tile; here the data of one tile,   *)
(* asked for again after each change of the update triggers.                *)
GetTiledTerrainData == getTiledTerrainData(FirstTile)

(* The tile layer asks for the data of any tile of the pyramid *)
GetTiledTerrainDataOfAnyTile == \E tile \in TileSet : getTiledTerrainData(tile)

(* The texture fetch of a tile settles: load(textureUrl) yields an image   *)
(* or fails.                                                                *)
SurfaceSettles ==
    /\ mq = <<>>
    /\ \E t \in 1..Len(tiles) :
          /\ tiles[t].surface.fetch = "pending"
          /\ \E outcome \in {"fulfilled", "rejected"} :
                tiles' = [tiles EXCEPT ![t].surface.fetch = outcome]
          /\ ev' = [op |-> "surfaceSettles", tile |-> t]
    /\ UNCHANGED <<props, isTiled, terrain, zRange, calls, mq, promResolved, loads, app>>

(* A join that settles with the elevation load alone *)
PromiseAll_Race(pt, ps) ==
    IF pt.status = "rejected" \/ ps.status = "rejected"
    THEN [status |-> "rejected", value |-> NoContent]
    ELSE IF pt.status = "fulfilled"
         THEN [status |-> "fulfilled", value |-> <<pt.value, ps.value>>]
         ELSE [status |-> "pending", value |-> NoContent]

(* Promise.all([terrain, surface]), line 181: rejected as soon as one of    *)
(* the two is, fulfilled with the pair once both are fulfilled.             *)
PromiseAll(pt, ps) ==
    IF pt.status = "rejected" \/ ps.status = "rejected"
    THEN [status |-> "rejected", value |-> NoContent]
    ELSE IF pt.status = "fulfilled" /\ ps.status = "fulfilled"
         THEN [status |-> "fulfilled", value |-> <<pt.value, ps.value>>]
         ELSE [status |-> "pending", value |-> NoContent]

(* The promise getTiledTerrainData returned for tile request t *)
TileResult(t) == PromiseAll(awaitLoad(loads[tiles[t].terrain]), surfacePromise(tiles[t].surface))

(* renderSubLayers, lines 184-202: nothing without data, else a mesh layer  *)
(* made of the pair.                                                        *)
renderSubLayers(data) ==
    IF data = NoContent THEN [layer |-> FALSE, mesh |-> NoMesh, texture |-> "null"]
    ELSE [layer |-> TRUE, mesh |-> data[1], texture |-> data[2]]

----------------------------------------------------------------------------
(* onViewportLoad *)

Textures == {"null", "img"}

(* tile.content of a tile reported by the tile layer: none (not loaded, or  *)
(* its load failed) or the pair getTiledTerrainData resolved to.  The       *)
(* texture of a pair is not read here: the pairs with a mesh are taken with *)
(* no texture, the pair without a mesh with and without one.                *)
TileContents ==
    {NoContent} \cup {<<m, "null">> : m \in Meshes} \cup {<<NoMesh, t>> : t \in Textures}

(* The tiles argument: the contents of the tiles reported.  The code takes  *)
(* a minimum and a maximum over them and asks whether there are any, so     *)
(* neither their order nor a repetition matters: a set stands for the array.*)
ReportedTiles == {ts \in SUBSET TileContents : Cardinality(ts) <= MaxReported}

(* tiles.map((tile) => tile.content).filter(Boolean) *)
Contents(ts) == {c \in ts : c # NoContent}

(* arr[0].header.boundingBox raises a TypeError when arr[0] is null *)
Raises(ts) == \E c \in Contents(ts) : c[1] = NoMesh

(* bounds.map((bound) => bound[2]) of each content's mesh *)
Ranges(ts) == {<<c[1][1][3], c[1][2][3]>> : c \in Contents(ts)}

(* Math.min(...xs) and Math.max(...xs): Infinity and -Infinity of no       *)
(* arguments, represented by a value above and one below every height.     *)
PlusInfinity == Max(ZValues) + 1
MinusInfinity == Min(ZValues) - 1
MathMin(S) == IF S = {} THEN PlusInfinity ELSE Min(S)
MathMax(S) == IF S = {} THEN MinusInfinity ELSE Max(S)

CandidateMin(ts) == MathMin({r[1] : r \in Ranges(ts)})
CandidateMax(ts) == MathMax({r[2] : r \in Ranges(ts)})

(* The range replaced on every call *)
outside_Always(zr, minZ, maxZ) == TRUE

(* The condition of line 224 *)
outside(zr, minZ, maxZ) == zr = NoRange \/ minZ < zr[1] \/ maxZ > zr[2]

(* onViewportLoad without the return of lines 218-220 *)
setsState_NoEmptyReturn(zr, ts) ==
    /\ ~Raises(ts)
    /\ outside(zr, CandidateMin(ts), CandidateMax(ts))

(* Whether the call reaches this.setState, line 225 *)
setsState(zr, ts) ==
    /\ ~Raises(ts)
    /\ Ranges(ts) # {}
    /\ outside(zr, CandidateMin(ts), CandidateMax(ts))

(* state.zRange after onViewportLoad(tiles), lines 210-226 *)
zRangeAfter(zr, ts) ==
    IF setsState(zr, ts) THEN <<CandidateMin(ts), CandidateMax(ts)>> ELSE zr

(* onViewportLoad() without tiles: line 206 returns *)
OnViewportLoadUndefined ==
    /\ mq = <<>>
    /\ ev' = [op |-> "onViewportLoad", defined |-> FALSE, tiles |-> {},
              before |-> zRange, setState |-> FALSE, threw |-> FALSE]
    /\ UNCHANGED <<props, isTiled, terrain, zRange, calls, mq, promResolved, loads, tiles, app>>

OnViewportLoad ==
    /\ mq = <<>>
    /\ \E ts \in ReportedTiles :
          /\ zRange' = zRangeAfter(zRange, ts)
          /\ ev' = [op |-> "onViewportLoad", defined |-> TRUE, tiles |-> ts,
                    before |-> zRange, setState |-> setsState(zRange, ts),
                    threw |-> Raises(ts)]
    /\ UNCHANGED <<props, isTiled, terrain, calls, mq, promResolved, loads, tiles, app>>

----------------------------------------------------------------------------
(* renderLayers, lines 229-305: the tile layer in tiled mode, else the mesh *)
(* layer with state.terrain as its mesh                                     *)
renderLayers ==
    IF isTiled = "true" THEN [layer |-> "TileLayer", mesh |-> 0]
    ELSE [layer |-> "SimpleMeshLayer", mesh |-> terrain]

----------------------------------------------------------------------------
(* App, part_001 *)

layerVars == <<props, isTiled, terrain, zRange, calls, mq, promResolved, loads, tiles>>

(* The two useSelector calls of App, lines 39-40 *)
useSelectors(store) ==
    [meshMaxError |-> Select(store, "meshMaxError"),
     tesselator |-> Select(store, "tesselator")]

(* new TerrainLayer({...}), lines 91-117 and 204-230: the id and the bounds *)
(* of the dataset, the hint and the tolerance of the closure that creates  *)
(* the layer                                                                *)
NewTerrainLayer(ds, closure, by) ==
    [id |-> layerId(ds.name),
     bounds |-> <<ds.minLon, ds.minLat, ds.maxLon, ds.maxLat>>,
     tesselator |-> closure.tesselator, meshMaxError |-> closure.meshMaxError, by |-> by]

(* The loops of lines 87-119 and 199-231: a layer for each dataset of list *)
layersOf(list, closure, by) ==
    [i \in 1..Len(list) |-> NewTerrainLayer(list[i], closure, by)]

(* What the slice calls of the loop of lines 122-129 return, one for each   *)
(* dataset of removeList; the loop drops them.                              *)
slicesOf(layers, removeList) ==
    [i \in 1..Len(removeList) |->
        LET removeIndex == findIndex(layers, layerId(removeList[i].name))
        IN IF removeIndex > -1 THEN slice(layers, removeIndex, 1) ELSE <<>>]

(* Some component dispatches an action to the store *)
Dispatch ==
    /\ \E action \in StoreActions :
          /\ app' = [app EXCEPT !.store = rootReducer(app.store, action)]
          /\ ev' = [op |-> "dispatch", action |-> action]
    /\ UNCHANGED layerVars

(* App renders (the first time, or after the store or its own state        *)
(* changed) and reads the store.                                           *)
AppRender ==
    /\ app' = [app EXCEPT !.rendered = TRUE,
                          !.read = useSelectors(app.store),
                          !.first = IF app.rendered THEN app.first
                                    ELSE useSelectors(app.store)]
    /\ ev' = [op |-> "appRender"]
    /\ UNCHANGED layerVars

(* getBboxData, lines 171-237, run once by the mount effect of lines 53-55, *)
(* from where the catalog has arrived: it is the function of the first      *)
(* render, so it filters with that render's view bbox and creates the       *)
(* layers with what that render read, then sets terrainLayers, imgList and  *)
(* bboxData.                                                                *)
GetBboxDataCreatesLayer ==
    /\ app.rendered
    /\ app.bboxData = "undefined"
    /\ app.effects = "none"
    /\ LET initImgList == InsideView(Catalog, InitialView)
           initLayers == layersOf(initImgList, app.first, "getBboxData")
       IN app' = [app EXCEPT !.created = @ \o initLayers,
                             !.terrainLayers = initLayers,
                             !.imgList = initImgList,
                             !.bboxData = Catalog,
                             !.read = useSelectors(app.store)]
    /\ ev' = [op |-> "createLayer", by |-> "getBboxData"]
    /\ UNCHANGED layerVars

(* onViewStateChange, lines 411-418: a new view bbox and zoom, and the      *)
(* render that follows, after which the effect of lines 57-79 is due.       *)
OnViewStateChange ==
    /\ app.rendered
    /\ app.effects = "none"
    /\ Len(app.created) < MaxLayers
    /\ \E viewBbox \in Views, zoom \in Zooms :
          /\ app' = [app EXCEPT !.viewBbox = viewBbox, !.zoom = zoom,
                                !.read = useSelectors(app.store),
                                !.effects = "viewChanged"]
          /\ ev' = [op |-> "onViewStateChange", viewBbox |-> viewBbox, zoom |-> zoom]
    /\ UNCHANGED layerVars

(* The effect of lines 57-79: with a catalog and a zoom other than 0 it     *)
(* sets addList, removeList and imgList, and the render that follows makes  *)
(* the effect of lines 81-130 due.                                          *)
ViewChangeEffect ==
    /\ app.effects = "viewChanged"
    /\ IF app.bboxData # "undefined" /\ app.zoom # 0
       THEN LET newImgList == InsideView(app.bboxData, app.viewBbox)
            IN app' = [app EXCEPT !.addList = Without(newImgList, app.imgList),
                                  !.removeList = Without(app.imgList, newImgList),
                                  !.imgList = newImgList,
                                  !.read = useSelectors(app.store),
                                  !.effects = "listsChanged"]
       ELSE app' = [app EXCEPT !.effects = "none"]
    /\ ev' = [op |-> "viewChangeEffect",
              ran |-> (app.bboxData # "undefined" /\ app.zoom # 0)]
    /\ UNCHANGED layerVars

(* The effect of lines 81-130, run after a render whose addList and         *)
(* removeList changed: it creates a layer for each dataset of addList with  *)
(* what that render read and keeps them in a local array, and for each      *)
(* dataset of removeList takes a slice of terrainLayers that it drops.  It  *)
(* sets no state.                                                           *)
AddEffectCreatesLayer ==
    /\ app.effects = "listsChanged"
    /\ LET addLayer == layersOf(app.addList, app.read, "addEffect")
       IN /\ app' = [app EXCEPT !.created = @ \o addLayer, !.effects = "none"]
          /\ ev' = [op |-> "createLayer", by |-> "addEffect", addLayer |-> addLayer,
                    slices |-> slicesOf(app.terrainLayers, app.removeList)]
    /\ UNCHANGED layerVars

----------------------------------------------------------------------------
(* The single-mesh layer: its initialization, prop updates and reloads *)
Next ==
    \/ InitializeLayer
    \/ SetProps
    \/ ResolveBounds
    \/ ResumeUpdateState
    \/ LoadSettles

(* updateState reads neither props.texture nor props.elevationDecoder: the  *)
(* layer is constructed with no texture and the default decoder, and later  *)
(* calls may change either.                                                 *)
InitSingle == Init /\ props.texture = "null" /\ props.elevationDecoder = "default"

Spec == InitSingle /\ [][Next]_vars

(* The tile loader, called by the tile layer for the tiles it wants *)
NextTiles ==
    \/ GetTiledTerrainData
    \/ LoadSettles
    \/ SurfaceSettles

(* getTiledTerrainData does not read props.bounds (a tile's bounds come    *)
(* from the tile) and hands props.elevationDecoder on as it is, so the     *)
(* layer is taken with no bounds and the default decoder.                  *)
InitTiles == Init /\ props.bounds = "null" /\ props.elevationDecoder = "default"

SpecTiles == InitTiles /\ [][NextTiles]_vars

(* The z-range aggregation, called by the tile layer with the tiles of the  *)
(* viewport; the layer is constructed with the default props.               *)
DefaultProps ==
    [elevationData |-> "null", texture |-> "null", meshMaxError |-> 4,
     bounds |-> "null", tesselator |-> "auto", elevationDecoder |-> "default"]

InitZRange == Init /\ props = DefaultProps

NextZRange ==
    \/ OnViewportLoadUndefined
    \/ OnViewportLoad

SpecZRange == InitZRange /\ [][NextZRange]_vars

(* The requests of the tile layer for any tiles, without the fetches *)
NextBounds == GetTiledTerrainDataOfAnyTile

SpecBounds == InitTiles /\ [][NextBounds]_vars

(* The application and its store; the layer is left as constructed *)
InitApp == Init /\ props = DefaultProps

NextApp ==
    \/ Dispatch
    \/ AppRender
    \/ GetBboxDataCreatesLayer
    \/ OnViewStateChange
    \/ ViewChangeEffect
    \/ AddEffectCreatesLayer

SpecApp == InitApp /\ [][NextApp]_vars

----------------------------------------------------------------------------
(* Properties of the single-mesh reload *)

(* A call that entered the reload branch of updateState *)
IsReload(c) == c.pc # "returned" \/ c.load # 0

ReloadCalls == {j \in 1..Len(calls) : IsReload(calls[j])}

(* C1: latest wins.  Whenever a call of updateState writes its load to     *)
(* state.terrain, no reload has been initiated after that call: the load   *)
(* of an earlier call is never written once a later reload has started,    *)
(* and so never replaces the later one's.                                  *)
C1_OnlyLatestLoadApplied ==
    ev.op = "resumeUpdateState" => \A j \in ReloadCalls : j <= ev.call

(* C10: with no elevation source configured, state.terrain holds no load   *)
(* of an elevation source: it is undefined or a load that resolved to null.*)
C10_NoSourceNoMesh ==
    (calls # <<>> /\ mq = <<>> /\ IsFalsy(props.elevationData))
        => (terrain = 0 \/ IsFalsy(loads[terrain].elevationData))

----------------------------------------------------------------------------
(* Properties of onViewportLoad *)

(* A call of onViewportLoad with a tiles argument has just returned *)
ViewportLoaded == ev.op = "onViewportLoad" /\ ev.defined

(* Every reported tile has a mesh, and there is at least one *)
AllWithMeshes(ts) == ts # {} /\ \A c \in ts : c # NoContent /\ c[1] # NoMesh

(* The range the aggregate is specified to have: the union with the        *)
(* candidate range, or the candidate range when there was none.            *)
ExpandedRange(zr, ts) ==
    IF zr = NoRange THEN <<CandidateMin(ts), CandidateMax(ts)>>
    ELSE <<Min({zr[1], CandidateMin(ts)}), Max({zr[2], CandidateMax(ts)})>>

(* C2: after onViewportLoad with a non-empty set of tiles that all have    *)
(* meshes, state.zRange is the previous range expanded by the candidate    *)
(* range, or the candidate range when there was none.                      *)
C2_RangeIsExpansion ==
    (ViewportLoaded /\ AllWithMeshes(ev.tiles)) => zRange = ExpandedRange(ev.before, ev.tiles)

(* C3: a call of onViewportLoad never shrinks a range that was set: its    *)
(* lower bound does not increase, its upper bound does not decrease, and   *)
(* its width does not decrease.                                            *)
C3_RangeNeverShrinks ==
    (ev.op = "onViewportLoad" /\ ev.before # NoRange) =>
        /\ zRange # NoRange
        /\ zRange[1] <= ev.before[1]
        /\ zRange[2] >= ev.before[2]
        /\ zRange[2] - zRange[1] >= ev.before[2] - ev.before[1]

(* C4: onViewportLoad with no tiles argument, with no tiles, or with tiles *)
(* none of which has content, leaves state.zRange as it was and does not   *)
(* call setState.                                                          *)
C4_EmptyTileSetNoUpdate ==
    (ev.op = "onViewportLoad" /\ (~ev.defined \/ Contents(ev.tiles) = {})) =>
        (zRange = ev.before /\ ~ev.setState /\ ~ev.threw)

(* C4 witness: a call with one tile without content, a range being set *)
C4_Witness ==
    /\ ViewportLoaded
    /\ ev.tiles = {NoContent}
    /\ ev.before # NoRange
    /\ zRange = ev.before

(* C5: when the candidate range of the reported tiles lies inside the      *)
(* current range, onViewportLoad leaves the range as it was; tiles with    *)
(* heights [0,10] and [5,20] give [0,20] when no range was set, and a call *)
(* with the [0,10] tile alone then leaves [0,20].                          *)
C5_InsideRangeUnchanged ==
    /\ (/\ ViewportLoaded
        /\ AllWithMeshes(ev.tiles)
        /\ ev.before # NoRange
        /\ CandidateMin(ev.tiles) >= ev.before[1]
        /\ CandidateMax(ev.tiles) <= ev.before[2]) => (zRange = ev.before /\ ~ev.setState)
    /\ (/\ ViewportLoaded
        /\ ev.tiles = {<<Mesh(0, 10), "null">>, <<Mesh(5, 20), "null">>}
        /\ ev.before = NoRange) => zRange = <<0, 20>>

(* C5 witness: the [0,10] tile reported alone while the range is [0,20] *)
C5_Witness ==
    /\ ViewportLoaded
    /\ ev.tiles = {<<Mesh(0, 10), "null">>}
    /\ ev.before = <<0, 20>>
    /\ zRange = <<0, 20>>

----------------------------------------------------------------------------
(* Properties of the tile loader *)

TileLoad(t) == loads[tiles[t].terrain]

(* C6: a failed texture fetch does not fail the tile: the tile's promise   *)
(* is rejected only if the elevation load is, and when the elevation load  *)
(* has succeeded it is fulfilled with a mesh and a null texture.           *)
C6_TextureFailureSwallowed ==
    \A t \in 1..Len(tiles) :
        tiles[t].surface.fetch = "rejected" =>
            /\ TileResult(t).status = "rejected" => TileLoad(t).fetch = "rejected"
            /\ TileLoad(t).fetch = "fulfilled" =>
                  /\ TileResult(t).status = "fulfilled"
                  /\ TileResult(t).value[1] = TileLoad(t).mesh
                  /\ TileResult(t).value[1] # NoMesh
                  /\ TileResult(t).value[2] = "null"

(* C6 witness: a tile whose texture fetch failed and whose elevation load  *)
(* succeeded                                                               *)
C6_Witness ==
    \E t \in 1..Len(tiles) :
        /\ tiles[t].surface.fetch = "rejected"
        /\ TileLoad(t).fetch = "fulfilled"
        /\ TileResult(t).status = "fulfilled"

(* C7: a failed elevation fetch fails the load: the promise loadTerrain    *)
(* returned is rejected, the tile's promise is rejected whatever the       *)
(* texture fetch did, and the elevation resource of a load was requested   *)
(* exactly once.                                                           *)
C7_ElevationFailurePropagates ==
    /\ \A i \in 1..Len(loads) :
          /\ ~IsFalsy(loads[i].elevationData) => loads[i].fetches = 1
          /\ loads[i].fetch = "rejected" => awaitLoad(loads[i]).status = "rejected"
    /\ \A t \in 1..Len(tiles) :
          TileLoad(t).fetch = "rejected" => TileResult(t).status = "rejected"

(* C7 witness: a tile whose elevation fetch failed and whose texture fetch *)
(* succeeded                                                               *)
C7_Witness ==
    \E t \in 1..Len(tiles) :
        /\ TileLoad(t).fetch = "rejected"
        /\ tiles[t].surface.fetch = "fulfilled"
        /\ TileResult(t).status = "rejected"

(* C8: a tile without an elevation url has a nil result: what its promise  *)
(* resolves to holds neither a mesh nor a texture, and the sub layer made  *)
(* of it gets neither.                                                     *)
C8_NoElevationNilResult ==
    \A t \in 1..Len(tiles) :
        (IsFalsy(TileLoad(t).elevationData) /\ TileResult(t).status = "fulfilled") =>
            /\ renderSubLayers(TileResult(t).value).mesh = NoMesh
            /\ renderSubLayers(TileResult(t).value).texture = "null"

(* C9: loadTerrain with no elevation source issues no fetch and returns a  *)
(* promise resolved to a null mesh.                                        *)
C9_AbsentSourceNullMesh ==
    \A i \in 1..Len(loads) :
        IsFalsy(loads[i].elevationData) =>
            /\ loads[i].fetches = 0
            /\ loads[i].fetch = "notIssued"
            /\ awaitLoad(loads[i]) = [status |-> "fulfilled", value |-> NoMesh]

(* C9 witness: loadTerrain was called with no elevation source *)
C9_Witness ==
    \E i \in 1..Len(loads) :
        /\ IsFalsy(loads[i].elevationData)
        /\ awaitLoad(loads[i]).status = "fulfilled"

----------------------------------------------------------------------------
(* Properties of updateState *)

(* C11: an updateState call in which one of the four reload props differs  *)
(* from the previous props, made with an elevation source of any form the  *)
(* configuration allows (a string or an array of strings), initiates a     *)
(* load.                                                                   *)
C11_ChangeInitiatesLoad ==
    (ev.op = "updateState" /\ ev.changed /\ ~IsFalsy(props.elevationData)) => ev.reload

(* C12: the mode is always single-mesh.  Whatever the elevation source, a  *)
(* template or an array of templates included, state.isTiled is never true *)
(* and renderLayers yields the mesh layer, never the tile layer.           *)
C12_AlwaysSingleMesh ==
    /\ isTiled # "true"
    /\ renderLayers.layer = "SimpleMeshLayer"

C12_Witness ==
    /\ Len(calls) >= 2
    /\ props.elevationData \in {"tmplS", "tmplArr"}
    /\ calls[1].props.elevationData \in {"tmplS", "tmplArr"}
    /\ isTiled = "false"

(* C17: the bounds are resolved before the load.  Every load initiated by  *)
(* updateState got a bounds value, never a promise, and when the rest of   *)
(* updateState runs (the load is initiated and state.terrain replaced) the *)
(* bounds promise of that call, if it has one, has been resolved.          *)
C17_BoundsResolvedBeforeLoad ==
    /\ \A i \in 1..Len(loads) :
          loads[i].by = "updateState" => loads[i].bounds \notin BoundsPromises
    /\ \A j \in 1..Len(calls) :
          (calls[j].load # 0 /\ calls[j].props.bounds \in BoundsPromises)
              => calls[j].props.bounds \in promResolved
    /\ (ev.op = "resumeUpdateState" /\ calls[ev.call].props.bounds \in BoundsPromises)
          => calls[ev.call].props.bounds \in promResolved

C17_Witness ==
    \E j \in 1..Len(calls) :
        /\ calls[j].props.bounds \in BoundsPromises
        /\ calls[j].load # 0
        /\ terrain = calls[j].load

(* None of the four props shouldReload compares differs *)
SameReloadProps(p, old) ==
    /\ p.elevationData = old.elevationData
    /\ p.meshMaxError = old.meshMaxError
    /\ p.bounds = old.bounds
    /\ p.tesselator = old.tesselator

(* C19: an updateState call with new props in which none of elevationData, *)
(* meshMaxError, bounds and tesselator differs from the previous props      *)
(* (only elevationDecoder or texture may differ) initiates no load, queues  *)
(* no continuation and leaves state.terrain and state.isTiled unchanged.    *)
C19_NoChangeNoReload ==
    [][(ev'.op = "updateState" /\ calls # <<>> /\ SameReloadProps(props', props))
          => /\ terrain' = terrain
             /\ isTiled' = isTiled
             /\ loads' = loads
             /\ mq' = mq
             /\ calls'[Len(calls')].pc = "returned"]_vars

C19_Witness ==
    /\ ev.op = "updateState"
    /\ Len(calls) = 2
    /\ IsString(props.elevationData)
    /\ props.elevationDecoder = "terrarium"
    /\ calls[2].pc = "returned"

----------------------------------------------------------------------------
(* Properties of getTiledTerrainData *)

(* C13, as stated: the load of a tile is settled only when both its        *)
(* elevation fetch and its texture fetch have completed.                    *)
C13_SettledOnlyAfterBoth ==
    \A t \in 1..Len(tiles) :
        TileResult(t).status # "pending" =>
            /\ TileLoad(t).fetch # "pending"
            /\ tiles[t].surface.fetch # "pending"

(* C13: getTiledTerrainData issues the elevation fetch and the texture     *)
(* fetch of a tile in the same step, each whenever it has a url, so        *)
(* neither waits for the other.  The tile's promise is fulfilled only      *)
(* after both have completed, in whichever order; it is rejected exactly   *)
(* when the elevation load is rejected, which may be while the texture     *)
(* fetch is still pending; otherwise it is pending.                        *)
C13_JoinOfBothFetches ==
    \A t \in 1..Len(tiles) :
        /\ ~IsFalsy(TileLoad(t).elevationData) => TileLoad(t).fetch # "notIssued"
        /\ ~IsFalsy(tiles[t].textureUrl) => tiles[t].surface.fetch # "notIssued"
        /\ TileResult(t).status = "fulfilled" =>
              /\ TileLoad(t).fetch # "pending"
              /\ tiles[t].surface.fetch # "pending"
        /\ TileResult(t).status = "rejected" <=> TileLoad(t).fetch = "rejected"
        /\ TileResult(t).status = "pending" <=>
              /\ TileLoad(t).fetch # "rejected"
              /\ TileLoad(t).fetch = "pending" \/ tiles[t].surface.fetch = "pending"

(* C13 witness: a tile fulfilled after both of its fetches succeeded, next *)
(* to a tile whose elevation load is done and whose texture fetch is not   *)
C13_Witness ==
    \E t, u \in 1..Len(tiles) :
        /\ TileLoad(t).fetch = "fulfilled"
        /\ tiles[t].surface.fetch = "fulfilled"
        /\ TileResult(t).status = "fulfilled"
        /\ TileLoad(u).fetch = "fulfilled"
        /\ tiles[u].surface.fetch = "pending"
        /\ TileResult(u).status = "pending"

(* C14: every tile load carries the layer's meshMaxError and the layer's   *)
(* tesselator, as a single-mesh load of the same props does.               *)
C14_TileLoadCarriesHint ==
    \A t \in 1..Len(tiles) :
        /\ TileLoad(t).meshMaxError = props.meshMaxError
        /\ TileLoad(t).tesselator = props.tesselator
        /\ TileLoad(t).tesselator = loadTerrain(props, "updateState").tesselator

(* The bounds C16 states for a tile: the two corners of its bbox through   *)
(* the projection centred at the midpoint of the bbox at the tile's zoom   *)
ExpectedBounds(tile) ==
    LET P == WebMercatorViewport((tile.bbox.west + tile.bbox.east) \div 2,
                                 (tile.bbox.north + tile.bbox.south) \div 2, tile.z)
        sw == projectFlat(P, <<tile.bbox.west, tile.bbox.south>>)
        ne == projectFlat(P, <<tile.bbox.east, tile.bbox.north>>)
    IN <<sw[1], sw[2], ne[1], ne[2]>>

(* C16: the bounds of a tile's load are the projected corners of the       *)
(* tile's bbox, a function of the bbox and the zoom only: requests for the *)
(* same tile get the same bounds; and a call of getTiledTerrainData leaves *)
(* the props and the state of the layer as they were.                      *)
C16_TileBoundsFromTile ==
    /\ [](\A t \in 1..Len(tiles) :
             /\ TileLoad(t).bounds = ExpectedBounds(tiles[t].tile)
             /\ \A u \in 1..Len(tiles) :
                   tiles[t].tile = tiles[u].tile => TileLoad(t).bounds = TileLoad(u).bounds)
    /\ [][ev'.op = "getTiledTerrainData"
             => UNCHANGED <<props, isTiled, terrain, zRange>>]_vars

(* C16 witness: the same tile requested twice, at a zoom and a place other *)
(* than those of the first tile of the set                                 *)
C16_Witness ==
    /\ Len(tiles) >= 2
    /\ tiles[1].tile = tiles[2].tile
    /\ tiles[1].tile.z # FirstTile.z
    /\ tiles[1].tile.bbox # FirstTile.bbox

----------------------------------------------------------------------------
(* Properties of onViewportLoad with tiles that have no mesh *)

(* The reported contents that have a mesh *)
MeshContents(ts) == {c \in Contents(ts) : c[1] # NoMesh}

(* C15: a tile without a mesh does not break the z-range update.  Every    *)
(* call of onViewportLoad with tiles completes without raising, and when   *)
(* some reported tile has a mesh the range is set from those tiles.        *)
C15_NilMeshTileTolerated ==
    ViewportLoaded =>
        /\ ~ev.threw
        /\ MeshContents(ev.tiles) # {} => zRange # NoRange

(* C18: after a call of onViewportLoad with at least one tile that has a   *)
(* mesh, the stored range covers the z-extents of the meshes of that call: *)
(* its minimum is at most their least z and its maximum at least their     *)
(* greatest.                                                               *)
C18_RangeCoversCandidate ==
    (ViewportLoaded /\ MeshContents(ev.tiles) # {}) =>
        /\ zRange # NoRange
        /\ zRange[1] <= Min({c[1][1][3] : c \in MeshContents(ev.tiles)})
        /\ zRange[2] >= Max({c[1][2][3] : c \in MeshContents(ev.tiles)})

----------------------------------------------------------------------------
(* Properties of App and the store *)

(* C20: the hint App reads at a render is the value the store holds for    *)
(* the tessellator ('delatin' at first, the payload of the last            *)
(* SET_TESSELECTOR after one), and every layer App creates carries a value *)
(* the store has held.                                                     *)
C20_HintIsStoreValue ==
    /\ ev.op = "appRender" => app.read.tesselator = app.store.tesselector
    /\ \A i \in 1..Len(app.created) :
          app.created[i].tesselator \in {InitialStore.tesselector} \cup Payloads

(* The ids of the layers of a list, and the ids the datasets of a list get *)
LayerIds(layers) == {layers[i].id : i \in 1..Len(layers)}
DatasetIds(list) == {layerId(list[i].name) : i \in 1..Len(list)}

(* C21: once the effects of a view-state change made after the catalog     *)
(* load have run, imgList holds the named datasets strictly inside the     *)
(* view bbox and the layers handed to the renderer (terrainLayers) are the *)
(* layers of exactly those datasets.                                       *)
C21_LayersFollowImgList ==
    (ev.op = "createLayer" /\ ev.by = "addEffect") =>
        /\ app.imgList = InsideView(app.bboxData, app.viewBbox)
        /\ LayerIds(app.terrainLayers) = DatasetIds(app.imgList)

(* C22: the root reducer changes only the slice an action names.  From any *)
(* state of the store, SET_MESH_MAX_ERROR sets meshMaxError to the payload *)
(* and keeps the tessellator slice, SET_TESSELECTOR sets the tessellator   *)
(* slice to the payload and keeps meshMaxError, any other type keeps the   *)
(* whole state, and applying the action again changes nothing more.        *)
C22_ReducerFrame ==
    \A action \in StoreActions :
        LET state == app.store
            next == rootReducer(state, action)
        IN /\ DOMAIN next = DOMAIN state
           /\ action.type = "SET_MESH_MAX_ERROR" =>
                 /\ next.meshMaxError = action.payload
                 /\ next.tesselector = state.tesselector
           /\ action.type = "SET_TESSELECTOR" =>
                 /\ next.tesselector = action.payload
                 /\ next.meshMaxError = state.meshMaxError
           /\ action.type \notin {"SET_MESH_MAX_ERROR", "SET_TESSELECTOR"} => next = state
           /\ rootReducer(next, action) = next

(* C22 witness: a store whose two slices have both been set, to different  *)
(* payloads, the tessellator slice by the action just dispatched           *)
C22_Witness ==
    /\ ev.op = "dispatch"
    /\ ev.action.type = "SET_TESSELECTOR"
    /\ app.store.tesselector = ev.action.payload
    /\ app.store.meshMaxError \in Payloads
    /\ app.store.meshMaxError # app.store.tesselector

=============================================================================
